---- MODULE Spec2Model ----
(***************************************************************************)
(* A model of nxgraph: the adjacency-set graph store (graph.rs), the       *)
(* BFS and Dijkstra shortest-path searches (search.rs) and the Kahn-style  *)
(* topological sort (sort.rs).                                             *)
(*                                                                         *)
(* A single-threaded caller owns one graph, grows it with add_node,        *)
(* add_edge and add_edges_from, and runs queries on it.  Every query runs  *)
(* to completion inside one call; its outcome is kept in `res` until the   *)
(* caller drops it.                                                        *)
(*                                                                         *)
(* HashMap / HashSet iteration order is unspecified in Rust: every call    *)
(* that iterates a hash container draws an enumeration order `ord`.        *)
(***************************************************************************)
EXTENDS Integers, Sequences, FiniteSets, TLC

(* ------------------------------ bounds -------------------------------- *)

\* node keys are 1..MaxNode
MaxNode == 3
\* at most MaxEdges edges are ever stored in the graph
MaxEdges == 3
\* add_edges_from receives at most MaxBatch pairs
MaxBatch == 2

\* usize::MAX, the "infinite" initial distance of Dijkstra (search.rs:125);
\* only compared against hop counts, which stay far below it
USIZE_MAX == 2147483647

Nodes == 1..MaxNode

VARIABLES
    typ,    \* PhantomData<G>: "Directed" or "Undirected"
    adj,    \* Graph.adj : node -> set of successors
    pred,   \* Graph.pred: node -> set of predecessors
    res     \* the last call of the caller and what it returned

vars == <<typ, adj, pred, res>>

(* ----------------------------- hash maps ------------------------------ *)

EmptyMap == [x \in {} |-> {}]

\* HashMap::insert(k, v)
MapInsert(m, k, v) == [x \in (DOMAIN m) \cup {k} |-> IF x = k THEN v ELSE m[x]]

\* HashMap::remove(k)
MapRemove(m, k) == [x \in (DOMAIN m) \ {k} |-> m[x]]

\* HashMap::entry(k).or_default() for a map of sets
EntryOrDefault(m, k) == IF k \in DOMAIN m THEN m ELSE MapInsert(m, k, {})

\* HashMap::entry(k).or_default().insert(v) for a map of sets
EntryInsert(m, k, v) == LET m1 == EntryOrDefault(m, k)
                        IN  [m1 EXCEPT ![k] = m1[k] \cup {v}]

\* the enumeration orders a hash container may produce: permutations of the keys
Perms == {p \in [1..MaxNode -> Nodes] : \A i, j \in 1..MaxNode : p[i] = p[j] => i = j}

InSet(S, x) == x \in S

\* iterate the hash set S in the order ord
Enumerate(S, ord) == SelectSeq(ord, LAMBDA x : InSet(S, x))

(* ------------------------------ graph.rs ------------------------------ *)

\* Graph::new
New == [adj |-> EmptyMap, pred |-> EmptyMap]

\* Graph::nodes / Graph::iter : the keys of adj
nodes(g) == DOMAIN g.adj

\* Graph::edges
edges(g) == UNION {{<<k, w>> : w \in g.adj[k]} : k \in DOMAIN g.adj}

\* Graph::add_directed_edge
add_directed_edge(g, u, v) == [g EXCEPT !.adj = EntryInsert(g.adj, u, v)]

\* Graph<T, Undirected>::add_node
un_add_node(g, u) == [g EXCEPT !.adj = EntryOrDefault(g.adj, u)]

\* un_add_edge that stores the edge in one direction only
un_add_edge_oneway(g, u, v) == add_directed_edge(g, u, v)

\* Graph<T, Undirected>::add_edge
un_add_edge(g, u, v) == add_directed_edge(add_directed_edge(g, u, v), v, u)

\* Graph<T, Directed>::add_node
di_add_node(g, u) == [adj  |-> EntryOrDefault(g.adj, u),
                      pred |-> EntryOrDefault(g.pred, u)]

\* di_add_edge that creates the predecessor entry of v but never fills it
di_add_edge_nopred(g, u, v) ==
    [adj  |-> EntryOrDefault(EntryInsert(g.adj, u, v), v),
     pred |-> EntryOrDefault(EntryOrDefault(g.pred, v), u)]

\* di_add_edge that forgets the predecessor entry of the edge's tail
di_add_edge_notail(g, u, v) ==
    [adj  |-> EntryOrDefault(EntryInsert(g.adj, u, v), v),
     pred |-> EntryInsert(g.pred, v, u)]

\* Graph<T, Directed>::add_edge
di_add_edge(g, u, v) ==
    [adj  |-> EntryOrDefault(EntryInsert(g.adj, u, v), v),
     pred |-> EntryOrDefault(EntryInsert(g.pred, v, u), u)]

add_edge(t, g, u, v) == IF t = "Directed" THEN di_add_edge(g, u, v)
                                          ELSE un_add_edge(g, u, v)

add_node(t, g, u) == IF t = "Directed" THEN di_add_node(g, u)
                                       ELSE un_add_node(g, u)

\* add_edges_from: add_edge for every pair, in the order given
RECURSIVE add_edges_from(_, _, _)
add_edges_from(t, g, es) ==
    IF es = <<>> THEN g
    ELSE add_edges_from(t, add_edge(t, g, Head(es)[1], Head(es)[2]), Tail(es))

\* in_degree that counts the successors of u
in_degree_out(g, u) == IF u \in DOMAIN g.adj THEN Cardinality(g.adj[u]) ELSE 0

\* Graph<T, Directed>::in_degree
in_degree(g, u) == IF u \in DOMAIN g.pred THEN Cardinality(g.pred[u]) ELSE 0

\* Graph<T, Directed>::in_degree_map
in_degree_map(g) == [n \in nodes(g) |-> in_degree(g, n)]

(* ------------------------------ search.rs ----------------------------- *)

\* outcomes of shortest_path_util: Option<(usize, HashMap<T, T>)>, or a panic.
\* rewrites is a history value kept for Dijkstra: how often previous.insert
\* replaced an entry that was already there
UtilSome(d, previous) == [tag |-> "Some", len |-> d, prev |-> previous, rewrites |-> 0]
UtilNone == [tag |-> "None", len |-> 0, prev |-> EmptyMap, rewrites |-> 0]
UtilPanic == [tag |-> "Panic", len |-> 0, prev |-> EmptyMap, rewrites |-> 0]

\* bfs_neighbors that enqueues a neighbor at the distance of its parent
RECURSIVE bfs_neighbors_samedist(_, _, _, _)
bfs_neighbors_samedist(ns, node, dist, st) ==
    IF ns = <<>> THEN st
    ELSE LET neighbor == Head(ns)
         IN  IF neighbor \notin st.visited
             THEN bfs_neighbors_samedist(Tail(ns), node, dist,
                      [previous |-> MapInsert(st.previous, neighbor, node),
                       queue    |-> Append(st.queue, <<neighbor, dist>>),
                       visited  |-> st.visited \cup {neighbor}])
             ELSE bfs_neighbors_samedist(Tail(ns), node, dist, st)

\* BFS::shortest_path_util, the `for neighbor in g.adj(&node)` loop
RECURSIVE bfs_neighbors(_, _, _, _)
bfs_neighbors(ns, node, dist, st) ==
    IF ns = <<>> THEN st
    ELSE LET neighbor == Head(ns)
         IN  IF neighbor \notin st.visited
             THEN bfs_neighbors(Tail(ns), node, dist,
                      [previous |-> MapInsert(st.previous, neighbor, node),
                       queue    |-> Append(st.queue, <<neighbor, dist + 1>>),
                       visited  |-> st.visited \cup {neighbor}])
             ELSE bfs_neighbors(Tail(ns), node, dist, st)

\* bfs_loop that takes a node without an adjacency entry as one without neighbours
RECURSIVE bfs_loop_lenient(_, _, _, _)
bfs_loop_lenient(g, target, st, ord) ==
    IF Len(st.queue) = 0 THEN UtilNone
    ELSE LET node == Head(st.queue)[1]
             dist == Head(st.queue)[2]
             st1  == [st EXCEPT !.queue = Tail(st.queue)]
         IN  IF node = target THEN UtilSome(dist, st.previous)
             ELSE IF node \notin DOMAIN g.adj THEN bfs_loop_lenient(g, target, st1, ord)
             ELSE bfs_loop_lenient(g, target,
                      bfs_neighbors(Enumerate(g.adj[node], ord), node, dist, st1), ord)

\* BFS::shortest_path_util, the `while queue.len() > 0` loop
RECURSIVE bfs_loop(_, _, _, _)
bfs_loop(g, target, st, ord) ==
    IF Len(st.queue) = 0 THEN UtilNone
    ELSE LET node == Head(st.queue)[1]
             dist == Head(st.queue)[2]
             st1  == [st EXCEPT !.queue = Tail(st.queue)]
         IN  IF node = target THEN UtilSome(dist, st.previous)
             ELSE IF node \notin DOMAIN g.adj THEN UtilPanic
             ELSE bfs_loop(g, target,
                      bfs_neighbors(Enumerate(g.adj[node], ord), node, dist, st1), ord)

\* impl SearchAlgorithm for BFS :: shortest_path_util
bfs_shortest_path_util(g, source, target, ord) ==
    bfs_loop(g, target,
             [previous |-> EmptyMap,
              visited  |-> {source},
              queue    |-> << <<source, 0>> >>], ord)

\* State::cmp that compares the costs only, without the tie-break on the node
StateGreater_costonly(a, b) == b.cost > a.cost

\* impl Ord for State :: cmp, as "a is greater than b": the lower cost is the
\* greater state, and among equal costs the greater node is the greater state
StateGreater(a, b) ==
    \/ b.cost > a.cost
    \/ b.cost = a.cost /\ a.node > b.node

\* BinaryHeap::pop : the index of the greatest State of the heap
HeapMax(heap) ==
    CHOOSE i \in 1..Len(heap) :
        /\ \A j \in 1..Len(heap) : ~StateGreater(heap[j], heap[i])
        /\ \A j \in 1..(i - 1) : heap[j] # heap[i]

HeapRemove(heap, i) == SubSeq(heap, 1, i - 1) \o SubSeq(heap, i + 1, Len(heap))

\* dijkstra_neighbors that relaxes a neighbor without adding the edge weight
RECURSIVE dijkstra_neighbors_noweight(_, _, _, _)
dijkstra_neighbors_noweight(ns, node, cost, st) ==
    IF ns = <<>> \/ st.panic THEN st
    ELSE LET neighbor == Head(ns)
             next     == [cost |-> cost, node |-> neighbor]
         IN  IF neighbor \notin DOMAIN st.dist
             THEN [st EXCEPT !.panic = TRUE]
             ELSE IF next.cost < st.dist[neighbor]
             THEN dijkstra_neighbors_noweight(Tail(ns), node, cost,
                      [dist     |-> [st.dist EXCEPT ![neighbor] = next.cost],
                       heap     |-> Append(st.heap, next),
                       previous |-> MapInsert(st.previous, neighbor, node),
                       rewrites |-> st.rewrites +
                                    (IF neighbor \in DOMAIN st.previous THEN 1 ELSE 0),
                       panic    |-> FALSE])
             ELSE dijkstra_neighbors_noweight(Tail(ns), node, cost, st)

\* Dijkstra::shortest_path_util, the `for neighbor in g.adj(&node)` loop
RECURSIVE dijkstra_neighbors(_, _, _, _)
dijkstra_neighbors(ns, node, cost, st) ==
    IF ns = <<>> \/ st.panic THEN st
    ELSE LET neighbor == Head(ns)
             next     == [cost |-> cost + 1, node |-> neighbor]
         IN  IF neighbor \notin DOMAIN st.dist
             THEN [st EXCEPT !.panic = TRUE]
             ELSE IF next.cost < st.dist[neighbor]
             THEN dijkstra_neighbors(Tail(ns), node, cost,
                      [dist     |-> [st.dist EXCEPT ![neighbor] = next.cost],
                       heap     |-> Append(st.heap, next),
                       previous |-> MapInsert(st.previous, neighbor, node),
                       rewrites |-> st.rewrites +
                                    (IF neighbor \in DOMAIN st.previous THEN 1 ELSE 0),
                       panic    |-> FALSE])
             ELSE dijkstra_neighbors(Tail(ns), node, cost, st)

\* Dijkstra::shortest_path_util, the `while let Some(..) = heap.pop()` loop
RECURSIVE dijkstra_loop(_, _, _, _)
dijkstra_loop(g, target, st, ord) ==
    IF st.panic THEN UtilPanic
    ELSE IF Len(st.heap) = 0 THEN [UtilNone EXCEPT !.rewrites = st.rewrites]
    ELSE LET i    == HeapMax(st.heap)
             cost == st.heap[i].cost
             node == st.heap[i].node
             st1  == [st EXCEPT !.heap = HeapRemove(st.heap, i)]
         IN  IF node = target
             THEN [UtilSome(cost, st.previous) EXCEPT !.rewrites = st.rewrites]
             ELSE IF node \notin DOMAIN st.dist THEN UtilPanic
             ELSE IF cost > st.dist[node] THEN dijkstra_loop(g, target, st1, ord)
             ELSE IF node \notin DOMAIN g.adj THEN UtilPanic
             ELSE dijkstra_loop(g, target,
                      dijkstra_neighbors(Enumerate(g.adj[node], ord), node, cost, st1),
                      ord)

\* impl SearchAlgorithm for Dijkstra :: shortest_path_util
dijkstra_shortest_path_util(g, source, target, ord) ==
    LET dist == [x \in nodes(g) |-> USIZE_MAX]
    IN  IF source \notin DOMAIN dist THEN UtilPanic
        ELSE dijkstra_loop(g, target,
                 [dist     |-> [dist EXCEPT ![source] = 0],
                  heap     |-> << [cost |-> 0, node |-> source] >>,
                  previous |-> EmptyMap,
                  rewrites |-> 0,
                  panic    |-> FALSE], ord)

\* SearchAlgorithm::shortest_path_util, dispatched on the implementing type
shortest_path_util(alg, g, source, target, ord) ==
    IF alg = "BFS" THEN bfs_shortest_path_util(g, source, target, ord)
                   ELSE dijkstra_shortest_path_util(g, source, target, ord)

\* build_path, the `while current != source` loop; path is still reversed
RECURSIVE build_path_loop(_, _, _, _)
build_path_loop(previous, source, current, path) ==
    IF current = source THEN [panic |-> FALSE, path |-> path]
    ELSE IF current \notin DOMAIN previous THEN [panic |-> TRUE, path |-> <<>>]
    ELSE build_path_loop(MapRemove(previous, current), source, previous[current],
                         Append(path, previous[current]))

Reverse(s) == [i \in 1..Len(s) |-> s[Len(s) + 1 - i]]

\* build_path that returns the path as walked, from the target back
build_path_unreversed(previous, source, target) ==
    build_path_loop(previous, source, target, <<target>>)

\* build_path
build_path(previous, source, target) ==
    LET r == build_path_loop(previous, source, target, <<target>>)
    IN  IF r.panic THEN r ELSE [panic |-> FALSE, path |-> Reverse(r.path)]

\* what a call returns to the caller
Out(t, l, p, f) == [tag |-> t, len |-> l, path |-> p, flag |-> f, gens |-> <<>>,
                    prev |-> EmptyMap, rewrites |-> 0]

\* SearchAlgorithm::shortest_path_util seen from the caller:
\* Option<(usize, HashMap<T, T>)>
util_out(r) == [Out(r.tag, r.len, <<>>, FALSE) EXCEPT !.prev = r.prev,
                                                      !.rewrites = r.rewrites]

\* SearchAlgorithm::shortest_path : Option<Vec<T>>, where r is what
\* Self::shortest_path_util(g, source, target) returned
shortest_path(r, source, target) ==
    IF r.tag = "Some"
    THEN LET b == build_path(r.prev, source, target)
         IN  IF b.panic THEN Out("Panic", 0, <<>>, FALSE)
             ELSE Out("Some", 0, b.path, FALSE)
    ELSE Out(r.tag, 0, <<>>, FALSE)

\* SearchAlgorithm::shortest_path_length : Option<usize>
shortest_path_length(r) == Out(r.tag, r.len, <<>>, FALSE)

\* SearchAlgorithm::has_path : bool
has_path(r) ==
    IF r.tag = "Panic" THEN Out("Panic", 0, <<>>, FALSE)
    ELSE Out("Bool", 0, <<>>, r.tag = "Some")

(* ------------------------------- sort.rs ------------------------------ *)

\* topo_children that releases a child one parent too early
RECURSIVE topo_children_early(_, _)
topo_children_early(cs, st) ==
    IF cs = <<>> \/ st.panic THEN st
    ELSE LET child == Head(cs)
         IN  IF child \notin DOMAIN st.indegree_map
             THEN [st EXCEPT !.panic = TRUE]
             ELSE LET n == st.indegree_map[child] - 1
                  IN  IF n <= 1
                      THEN topo_children_early(Tail(cs),
                               [zero_indegree |-> Append(st.zero_indegree, child),
                                indegree_map  |-> MapRemove(st.indegree_map, child),
                                panic         |-> FALSE])
                      ELSE topo_children_early(Tail(cs),
                               [st EXCEPT !.indegree_map[child] = n])

\* topological_generations, the `for child in g.adj(node)` loop
RECURSIVE topo_children(_, _)
topo_children(cs, st) ==
    IF cs = <<>> \/ st.panic THEN st
    ELSE LET child == Head(cs)
         IN  IF child \notin DOMAIN st.indegree_map
             THEN [st EXCEPT !.panic = TRUE]
             ELSE LET n == st.indegree_map[child] - 1
                  IN  IF n = 0
                      THEN topo_children(Tail(cs),
                               [zero_indegree |-> Append(st.zero_indegree, child),
                                indegree_map  |-> MapRemove(st.indegree_map, child),
                                panic         |-> FALSE])
                      ELSE topo_children(Tail(cs),
                               [st EXCEPT !.indegree_map[child] = n])

\* topological_generations, the `for node in this_generation.iter()` loop
RECURSIVE topo_generation(_, _, _, _)
topo_generation(g, this, st, ord) ==
    IF this = <<>> \/ st.panic THEN st
    ELSE IF Head(this) \notin DOMAIN g.adj THEN [st EXCEPT !.panic = TRUE]
    ELSE topo_generation(g, Tail(this),
             topo_children(Enumerate(g.adj[Head(this)], ord), st), ord)

\* topo_loop without the check for nodes left with a nonzero in-degree
RECURSIVE topo_loop_nocheck(_, _, _, _)
topo_loop_nocheck(g, generations, st, ord) ==
    IF st.panic THEN Out("Panic", 0, <<>>, FALSE)
    ELSE IF st.zero_indegree = <<>>
    THEN [Out("Ok", 0, <<>>, FALSE) EXCEPT !.gens = generations]
    ELSE LET this_generation == st.zero_indegree
             st1 == topo_generation(g, this_generation,
                        [st EXCEPT !.zero_indegree = <<>>], ord)
         IN  topo_loop_nocheck(g, Append(generations, this_generation), st1, ord)

\* topological_generations, the `while !zero_indegree.is_empty()` loop
RECURSIVE topo_loop(_, _, _, _)
topo_loop(g, generations, st, ord) ==
    IF st.panic THEN Out("Panic", 0, <<>>, FALSE)
    ELSE IF st.zero_indegree = <<>>
    THEN IF DOMAIN st.indegree_map # {}
         THEN Out("Err", 0, <<>>, FALSE)
         ELSE [Out("Ok", 0, <<>>, FALSE) EXCEPT !.gens = generations]
    ELSE LET this_generation == st.zero_indegree
             st1 == topo_generation(g, this_generation,
                        [st EXCEPT !.zero_indegree = <<>>], ord)
         IN  topo_loop(g, Append(generations, this_generation), st1, ord)

\* topological_generations : Result<Vec<Vec<T>>>
topological_generations(g, ord) ==
    LET idm == in_degree_map(g)
    IN  topo_loop(g, <<>>,
            [zero_indegree |-> Enumerate({k \in DOMAIN idm : idm[k] = 0}, ord),
             indegree_map  |-> [k \in {k \in DOMAIN idm : idm[k] # 0} |-> idm[k]],
             panic         |-> FALSE], ord)

\* Iterator::flatten over the generations
RECURSIVE Flatten(_)
Flatten(ss) == IF ss = <<>> THEN <<>> ELSE Head(ss) \o Flatten(Tail(ss))

\* topological_sort : Result<Vec<T>>
topological_sort(g, ord) ==
    LET r == topological_generations(g, ord)
    IN  IF r.tag = "Ok" THEN Out("Ok", 0, Flatten(r.gens), FALSE)
        ELSE Out(r.tag, 0, <<>>, FALSE)

(* ------------------------------ the caller ---------------------------- *)

G == [adj |-> adj, pred |-> pred]

Algs == {"BFS", "Dijkstra"}

NoOut == Out("Unit", 0, <<>>, FALSE)

Call(op, alg, s, t, out) == [op |-> op, alg |-> alg, s |-> s, t |-> t, out |-> out]

Idle == Call("idle", "-", 0, 0, NoOut)

\* the graph holds at most cap edges (an undirected edge is stored in both
\* directions)
EdgesAtMost(t, g, cap) ==
    Cardinality(edges(g)) <= (IF t = "Directed" THEN cap ELSE 2 * cap)

WithinBounds(t, g) == EdgesAtMost(t, g, MaxEdges)

\* sequences of at most MaxBatch pairs
Batches == UNION {[1..n -> Nodes \X Nodes] : n \in 0..MaxBatch}

Init ==
    /\ typ \in {"Directed", "Undirected"}
    /\ adj = New.adj
    /\ pred = New.pred
    /\ res = Idle

Store(g, r) ==
    /\ adj' = g.adj
    /\ pred' = g.pred
    /\ res' = r
    /\ UNCHANGED typ

AddNode(u) ==
    Store(add_node(typ, G, u), Call("add_node", "-", u, 0, NoOut))

AddEdge(u, v) ==
    LET g1 == add_edge(typ, G, u, v)
    IN  /\ WithinBounds(typ, g1)
        /\ Store(g1, Call("add_edge", "-", u, v, NoOut))

AddEdgesFrom(es) ==
    LET g1 == add_edges_from(typ, G, es)
    IN  /\ WithinBounds(typ, g1)
        /\ Store(g1, Call("add_edges_from", "-", 0, 0, NoOut))

\* the three provided methods of SearchAlgorithm; r is the outcome of the
\* call of Self::shortest_path_util each of them starts with
ShortestPath(alg, s, t, r) ==
    Store(G, Call("shortest_path", alg, s, t, shortest_path(r, s, t)))

ShortestPathLength(alg, s, t, r) ==
    Store(G, Call("shortest_path_length", alg, s, t, shortest_path_length(r)))

HasPath(alg, s, t, r) ==
    Store(G, Call("has_path", alg, s, t, has_path(r)))

ShortestPathUtil(alg, s, t, r) ==
    Store(G, Call("shortest_path_util", alg, s, t, util_out(r)))

Search ==
    \E alg \in Algs, s, t \in Nodes, ord \in Perms :
         LET r == shortest_path_util(alg, G, s, t, ord)
         IN  \/ ShortestPath(alg, s, t, r)
             \/ ShortestPathLength(alg, s, t, r)
             \/ HasPath(alg, s, t, r)

TopologicalGenerations(ord) ==
    /\ typ = "Directed"
    /\ Store(G, Call("topological_generations", "-", 0, 0, topological_generations(G, ord)))

TopologicalSort(ord) ==
    /\ typ = "Directed"
    /\ Store(G, Call("topological_sort", "-", 0, 0, topological_sort(G, ord)))

\* the caller is done with what the call returned
Drop ==
    /\ res # Idle
    /\ res' = Idle
    /\ UNCHANGED <<typ, adj, pred>>

\* the caller makes its next call once it is done with the previous one
CallerIdle == res = Idle

\* the graph store alone
NextGraph ==
    \/ CallerIdle /\ \E u \in Nodes : AddNode(u)
    \/ CallerIdle /\ \E u, v \in Nodes : AddEdge(u, v)
    \/ CallerIdle /\ \E es \in Batches : AddEdgesFrom(es)
    \/ Drop

SpecGraph == Init /\ [][NextGraph]_vars

\* a graph under shortest-path queries
NextSearch ==
    \/ CallerIdle /\ \E u \in Nodes : AddNode(u)
    \/ CallerIdle /\ \E u, v \in Nodes : AddEdge(u, v)
    \/ CallerIdle /\ Search
    \/ Drop

SpecSearch == Init /\ [][NextSearch]_vars

\* a directed graph under topological sorting
InitSort == Init /\ typ = "Directed"

NextSort ==
    \/ CallerIdle /\ \E u \in Nodes : AddNode(u)
    \/ CallerIdle /\ \E u, v \in Nodes : AddEdge(u, v)
    \/ CallerIdle /\ \E ord \in Perms : TopologicalGenerations(ord)
    \/ CallerIdle /\ \E ord \in Perms : TopologicalSort(ord)
    \/ Drop

SpecSort == InitSort /\ [][NextSort]_vars

\* A graph under Dijkstra queries.  A node with two parents one hop from the
\* source takes four nodes and four edges: this specification has one node
\* and one edge more than the others.
WideNodes == 1..(MaxNode + 1)

WidePerms == {p \in [1..(MaxNode + 1) -> WideNodes] :
                 \A i, j \in 1..(MaxNode + 1) : p[i] = p[j] => i = j}

AddEdgeWide(u, v) ==
    LET g1 == add_edge(typ, G, u, v)
    IN  /\ EdgesAtMost(typ, g1, MaxEdges + 1)
        /\ Store(g1, Call("add_edge", "-", u, v, NoOut))

DijkstraSearch ==
    \E s, t \in WideNodes, ord \in WidePerms :
         LET r == shortest_path_util("Dijkstra", G, s, t, ord)
         IN  \/ ShortestPathUtil("Dijkstra", s, t, r)
             \/ ShortestPath("Dijkstra", s, t, r)

NextDijkstra ==
    \/ CallerIdle /\ \E u \in WideNodes : AddNode(u)
    \/ CallerIdle /\ \E u, v \in WideNodes : AddEdgeWide(u, v)
    \/ CallerIdle /\ DijkstraSearch
    \/ Drop

SpecDijkstra == Init /\ [][NextDijkstra]_vars

\* every operation on one graph over Nodes; the enumeration orders of Perms
\* cover every node such a graph can hold
Next ==
    \/ NextGraph
    \/ CallerIdle /\ Search
    \/ CallerIdle /\ \E alg \in Algs, s, t \in Nodes, ord \in Perms :
                       ShortestPathUtil(alg, s, t, shortest_path_util(alg, G, s, t, ord))
    \/ CallerIdle /\ \E ord \in Perms : TopologicalGenerations(ord)
    \/ CallerIdle /\ \E ord \in Perms : TopologicalSort(ord)

Spec == Init /\ [][Next]_vars

(* ======================= properties of the graph store ================ *)

\* the graph after the step
GNext == [adj |-> adj', pred |-> pred']

\* the nodes u with an edge u -> v, read off the adjacency map alone
Sources(g, v) == {u \in DOMAIN g.adj : v \in g.adj[u]}

\* C6: in a directed graph the adjacency map and the predecessor map have the
\* same keys, v is in adjacency[u] exactly when u is in predecessors[v], and
\* in_degree(v) is the number of nodes u with v in adjacency[u].
C6_PredMirrorsAdj ==
    typ = "Directed" =>
        /\ DOMAIN adj = DOMAIN pred
        /\ \A u, v \in Nodes :
               (u \in DOMAIN adj /\ v \in adj[u]) <=> (v \in DOMAIN pred /\ u \in pred[v])
        /\ \A v \in Nodes : in_degree(G, v) = Cardinality(Sources(G, v))

C6_Witness ==
    /\ typ = "Directed"
    /\ res.op = "add_edges_from"
    /\ \E u, v, w \in DOMAIN adj \cap DOMAIN pred :
           /\ u # v /\ v # w /\ v \in adj[u] /\ w \in adj[v]
           /\ adj[w] = {} /\ pred[u] = {}

\* C7: in an undirected graph adjacency is symmetric, every node that occurs
\* in an adjacency set has an adjacency entry of its own, and right after
\* add_edge(u, v) both v in adj(u) and u in adj(v) hold.
C7_UndirectedSymmetric ==
    typ = "Undirected" =>
        /\ \A u \in DOMAIN adj : \A v \in adj[u] : v \in DOMAIN adj /\ u \in adj[v]
        /\ res.op = "add_edge" =>
               /\ res.s \in DOMAIN adj /\ res.t \in adj[res.s]
               /\ res.t \in DOMAIN adj /\ res.s \in adj[res.t]

C7_Witness ==
    /\ typ = "Undirected"
    /\ res.op = "add_edge"
    /\ res.s # res.t
    /\ Cardinality(DOMAIN adj) = 3
    /\ res.s \in DOMAIN adj /\ adj[res.s] = {res.t}

\* C8 as stated: on a directed graph, after add_edge(u, v), whatever was in
\* the graph before, v is in adj(u), in_degree(v) is one greater than before
\* the call and in_degree(u) is what it was before the call.
C8_AsStated ==
    [][(typ = "Directed" /\ res'.op = "add_edge") =>
          /\ res'.s \in DOMAIN adj' /\ res'.t \in adj'[res'.s]
          /\ in_degree(GNext, res'.t) = in_degree(G, res'.t) + 1
          /\ in_degree(GNext, res'.s) = in_degree(G, res'.s)]_vars

\* C8, amended: on a directed graph, after add_edge(u, v), v is in adj(u);
\* in_degree(v) is one greater than before the call when the edge u -> v was
\* not in the graph and unchanged when it was; in_degree of every node other
\* than v, so of u when u # v, is what it was before the call.
C8_AddEdgeInDegree ==
    [][(typ = "Directed" /\ res'.op = "add_edge") =>
          LET u == res'.s
              v == res'.t
              had == u \in DOMAIN adj /\ v \in adj[u]
          IN  /\ u \in DOMAIN adj' /\ v \in adj'[u]
              /\ in_degree(GNext, v) = in_degree(G, v) + (IF had THEN 0 ELSE 1)
              /\ \A w \in Nodes \ {v} : in_degree(GNext, w) = in_degree(G, w)]_vars

C8_Witness ==
    /\ typ = "Directed"
    /\ res.op = "add_edge"
    /\ res.s # res.t
    /\ in_degree(G, res.t) = 2
    /\ in_degree(G, res.s) = 1

(* ======================= properties of the searches =================== *)

\* the nodes within k edges of s
RECURSIVE ReachWithin(_, _, _)
ReachWithin(g, s, k) ==
    IF k = 0 THEN {s}
    ELSE LET R == ReachWithin(g, s, k - 1)
         IN  R \cup UNION {g.adj[u] : u \in R \cap DOMAIN g.adj}

\* t is reachable from s
Reachable(g, s, t) == t \in ReachWithin(g, s, MaxNode)

\* the least number of edges of a path from s to t
MinHops(g, s, t) == CHOOSE k \in 0..MaxNode :
                        /\ t \in ReachWithin(g, s, k)
                        /\ \A j \in 0..(k - 1) : t \notin ReachWithin(g, s, j)

SearchOps == {"shortest_path", "shortest_path_length", "has_path"}

BothPresent == res.s \in nodes(G) /\ res.t \in nodes(G)

\* C1: for s and t in the graph, shortest_path_length of BFS and of Dijkstra
\* is Some(d) with d the least number of edges of a path from s to t (0
\* exactly when s = t) and None exactly when t is not reachable from s;
\* has_path is true exactly when t is reachable from s.
C1_LengthIsMinHops ==
    /\ (res.op = "shortest_path_length" /\ BothPresent) =>
           IF Reachable(G, res.s, res.t)
           THEN /\ res.out.tag = "Some"
                /\ res.out.len = MinHops(G, res.s, res.t)
                /\ res.out.len = 0 <=> res.s = res.t
           ELSE res.out.tag = "None"
    /\ (res.op = "has_path" /\ BothPresent) =>
           /\ res.out.tag = "Bool"
           /\ res.out.flag <=> Reachable(G, res.s, res.t)

C1_Witness ==
    /\ res.op = "shortest_path_length"
    /\ res.alg = "Dijkstra"
    /\ BothPresent
    /\ res.out.tag = "Some"
    /\ res.out.len = 1
    /\ res.s # res.t
    /\ \E w \in adj[res.s] \ {res.s, res.t} : w \in DOMAIN adj /\ res.t \in adj[w]

\* C2: for s and t in the graph, a path returned by shortest_path of BFS or
\* of Dijkstra is non-empty, starts with s, ends with t, steps along edges of
\* the graph and has shortest_path_length(g, s, t) + 1 elements; build_path
\* never misses a predecessor entry.
C2_PathIsShortestWalk ==
    (res.op = "shortest_path" /\ BothPresent) =>
        /\ res.out.tag # "Panic"
        /\ res.out.tag = "Some" =>
               LET p == res.out.path
               IN  /\ Len(p) >= 1
                   /\ p[1] = res.s
                   /\ p[Len(p)] = res.t
                   /\ \A i \in 1..(Len(p) - 1) :
                          p[i] \in DOMAIN adj /\ p[i + 1] \in adj[p[i]]
                   /\ \A ord \in Perms :
                          LET l == shortest_path_length(
                                       shortest_path_util(res.alg, G, res.s, res.t, ord))
                          IN  l.tag = "Some" /\ Len(p) = l.len + 1

C2_Witness ==
    /\ res.op = "shortest_path"
    /\ res.alg = "BFS"
    /\ BothPresent
    /\ res.out.tag = "Some"
    /\ Len(res.out.path) = 3
    /\ typ = "Directed"

OtherAlg(alg) == IF alg = "BFS" THEN "Dijkstra" ELSE "BFS"

\* C3: for s and t in the graph, BFS::shortest_path_length and
\* Dijkstra::shortest_path_length return the same value, whatever order the
\* neighbour sets are enumerated in.
C3_BfsDijkstraAgree ==
    (res.op = "shortest_path_length" /\ BothPresent) =>
        \A ord \in Perms :
            shortest_path_length(
                shortest_path_util(OtherAlg(res.alg), G, res.s, res.t, ord)) = res.out

C3_Witness ==
    /\ res.op = "shortest_path_length"
    /\ res.alg = "BFS"
    /\ BothPresent
    /\ res.out.tag = "Some"
    /\ res.out.len = 2
    /\ typ = "Undirected"

\* C10 as stated: a shortest-path query of BFS or of Dijkstra whose source
\* was never added to the graph panics for every target, target = source
\* included.
C10_AsStated ==
    (res.op \in SearchOps /\ res.s \notin nodes(G)) => res.out.tag = "Panic"

\* C10, amended: a shortest-path query whose source was never added to the
\* graph panics for every target when run by Dijkstra, and for every target
\* other than the source when run by BFS; BFS with target = source returns
\* the zero-length result (path [source], length 0, has_path true).
C10_AbsentSource ==
    (res.op \in SearchOps /\ res.s \notin nodes(G)) =>
        IF res.alg = "BFS" /\ res.t = res.s
        THEN res.out = (CASE res.op = "shortest_path" -> Out("Some", 0, <<res.s>>, FALSE)
                          [] res.op = "shortest_path_length" -> Out("Some", 0, <<>>, FALSE)
                          [] res.op = "has_path" -> Out("Bool", 0, <<>>, TRUE))
        ELSE res.out.tag = "Panic"

C10_Witness ==
    /\ res.op = "has_path"
    /\ res.alg = "BFS"
    /\ res.s \notin nodes(G)
    /\ res.t \in nodes(G)
    /\ res.out.tag = "Panic"

(* ==================== properties of the topological sort ============== *)

\* no node reaches itself along one or more edges
Acyclic(g) ==
    \A u \in DOMAIN g.adj : \A v \in g.adj[u] : ~Reachable(g, v, u)

\* the set of elements of a sequence
Range(q) == {q[i] : i \in 1..Len(q)}

\* the positions of v in the sequence q
Positions(q, v) == {i \in 1..Len(q) : q[i] = v}

\* the number of edges of the longest path that ends at v (acyclic graphs)
RECURSIVE LongestPathTo(_, _)
LongestPathTo(g, v) ==
    LET ps == Sources(g, v)
    IN  IF ps = {} THEN 0
        ELSE LET ls == {LongestPathTo(g, u) : u \in ps}
             IN  1 + CHOOSE m \in ls : \A l \in ls : l <= m

\* C4: on an acyclic directed graph topological_sort returns Ok(order) where
\* order holds every node of the graph exactly once and nothing else, and
\* for every edge u -> v the position of u is smaller than the position of v.
C4_SortIsTopologicalOrder ==
    (res.op = "topological_sort" /\ Acyclic(G)) =>
        /\ res.out.tag = "Ok"
        /\ Range(res.out.path) = nodes(G)
        /\ \A v \in nodes(G) : Cardinality(Positions(res.out.path, v)) = 1
        /\ \A e \in edges(G) :
               \A i \in Positions(res.out.path, e[1]) :
                   \A j \in Positions(res.out.path, e[2]) : i < j

C4_Witness ==
    /\ res.op = "topological_sort"
    /\ Acyclic(G)
    /\ res.out.tag = "Ok"
    /\ Len(res.out.path) = 3
    /\ Cardinality(edges(G)) = 3
    /\ res.out.path[1] > res.out.path[3]

\* C5: on a directed graph with at least one cycle (a self-loop included,
\* acyclic parts beside the cycle included) topological_generations and
\* topological_sort return Err(CycleError): no ordering and no panic.
C5_CycleIsError ==
    (res.op \in {"topological_generations", "topological_sort"} /\ ~Acyclic(G)) =>
        res.out.tag = "Err"

C5_Witness ==
    /\ res.op = "topological_generations"
    /\ res.out.tag = "Err"
    /\ \E u \in nodes(G) : u \in adj[u]
    /\ \E v, w \in nodes(G) : v # w /\ w \in adj[v] /\ ~Reachable(G, w, v)
                              /\ v \notin adj[v] /\ pred[v] = {}

\* the index (from 0) of the generation of gens that holds v
GenOf(gens, v) == (CHOOSE k \in 1..Len(gens) : v \in Range(gens[k])) - 1

\* C9: on an acyclic directed graph topological_generations returns Ok(gens)
\* where every node is in exactly one generation, no generation is empty,
\* generation 0 is the set of nodes of in-degree 0, and v is in generation
\* k + 1 exactly when all its predecessors are in generations 0..k and one of
\* them is in generation k: the index of its generation is the length of the
\* longest path that ends at v.
C9_GenerationsAreLayers ==
    (res.op = "topological_generations" /\ Acyclic(G)) =>
        LET gens == res.out.gens
        IN  /\ res.out.tag = "Ok"
            /\ \A k \in 1..Len(gens) : gens[k] # <<>>
            /\ Range(Flatten(gens)) = nodes(G)
            /\ \A v \in nodes(G) : Cardinality(Positions(Flatten(gens), v)) = 1
            /\ (nodes(G) # {}) =>
                   Range(gens[1]) = {v \in nodes(G) : Sources(G, v) = {}}
            /\ \A v \in nodes(G) : \A k \in 0..(Len(gens) - 1) :
                   (GenOf(gens, v) = k + 1) <=>
                       /\ Sources(G, v) # {}
                       /\ \A u \in Sources(G, v) : GenOf(gens, u) <= k
                       /\ \E u \in Sources(G, v) : GenOf(gens, u) = k
            /\ \A v \in nodes(G) : GenOf(gens, v) = LongestPathTo(G, v)

C9_Witness ==
    /\ res.op = "topological_generations"
    /\ Acyclic(G)
    /\ res.out.tag = "Ok"
    /\ Len(res.out.gens) = 3
    /\ Cardinality(edges(G)) = 3

(* ================= properties of Dijkstra's tie-breaking ============== *)

\* the nodes within MaxNode edges of s: all that s reaches among the
\* MaxNode + 1 nodes of WideNodes
WideReach(g, s) == ReachWithin(g, s, MaxNode)

\* the nodes one hop nearer to s than v that have an edge to v
Parents(g, s, v) ==
    {u \in WideReach(g, s) \cap DOMAIN g.adj :
        v \in g.adj[u] /\ MinHops(g, s, u) + 1 = MinHops(g, s, v)}

\* v is reached from s and its predecessor u is its greatest parent
IsGreatestParent(g, s, v, u) ==
    /\ v \in WideReach(g, s)
    /\ u \in Parents(g, s, v)
    /\ \A w \in Parents(g, s, v) : w <= u

\* C11: Dijkstra's result does not depend on the order the neighbour sets
\* are enumerated in.  A predecessor entry is never written twice; the
\* predecessor recorded for v is the greatest of the nodes one hop nearer to
\* the source that have an edge to v; and shortest_path_util and
\* shortest_path return, under every enumeration order, what they returned
\* under the one the call ran with.
C11_DijkstraOrderIndependent ==
    (res.alg = "Dijkstra" /\ res.op \in {"shortest_path_util", "shortest_path"}) =>
        /\ \A ord \in WidePerms :
               LET r == dijkstra_shortest_path_util(G, res.s, res.t, ord)
               IN  IF res.op = "shortest_path_util"
                   THEN util_out(r) = res.out
                   ELSE shortest_path(r, res.s, res.t) = res.out
        /\ res.op = "shortest_path_util" =>
               /\ res.out.rewrites = 0
               /\ \A v \in DOMAIN res.out.prev :
                      IsGreatestParent(G, res.s, v, res.out.prev[v])
        /\ (res.op = "shortest_path" /\ res.out.tag = "Some") =>
               \A i \in 1..(Len(res.out.path) - 1) :
                   IsGreatestParent(G, res.s, res.out.path[i + 1], res.out.path[i])

C11_Witness ==
    /\ res.alg = "Dijkstra"
    /\ res.op = "shortest_path"
    /\ res.out.tag = "Some"
    /\ Len(res.out.path) = 3
    /\ typ = "Directed"
    /\ \E b \in adj[res.s] \ {res.out.path[2]} :
           /\ b < res.out.path[2]
           /\ res.t \in adj[b]
           /\ res.out.path[2] \notin adj[b]
           /\ b \notin adj[res.out.path[2]]

====
